---- MODULE Spec2Model ----
(***************************************************************************)
(* Per-object asynchronous I/O requests of librbd (AioObjectRequest.cc):   *)
(* the read automaton (FLAT, GUARD, COPYUP), the write-family automaton    *)
(* (PRE, FLAT, GUARD, COPYUP, POST, ERROR) for write, zero, truncate and   *)
(* remove, the copyup registry shared by the requests of one image, and    *)
(* the image metadata the requests consult.                                *)
(*                                                                         *)
(* A request is a record; every handler of the source is an operator from  *)
(* request record to request record, and every callback that re-enters     *)
(* complete(r) is one action.  The only places where a handler is split    *)
(* over several actions are the acquisitions of copyup_list_lock.          *)
(***************************************************************************)
EXTENDS Integers, Sequences, FiniteSets, TLC

VARIABLES ictx, req, copyup_list, copyup_list_lock, jobs

vars == <<ictx, req, copyup_list, copyup_list_lock, jobs>>

(***************************************************************************)
(* Bounds of the model.                                                    *)
(***************************************************************************)
\* number of requests constructed in one behaviour
MaxReq == 2
\* number of backing objects of the image
NumObj == 2
\* layout.object_size, in abstract bytes
ObjectSize == 2

\* errno value of "no such object"
ENOENT == 2

Reqs == 1..MaxReq
ObjNos == 0..(NumObj - 1)
MaxOverlap == NumObj * ObjectSize

\* statuses an object-store read or a parent read can complete with
\* (-5 stands for any negative status other than -ENOENT, 1 for "bytes read")
Statuses == {-5, -ENOENT, 0, 1}
\* statuses of a write batch, of an object-map update and of a copyup job
UpdateStatuses == {-5, -ENOENT, 0}

WriteKinds == {"write", "zero", "truncate", "remove"}
Kinds == {"read"} \cup WriteKinds

NoReq == 0

(***************************************************************************)
(* Helpers.                                                                *)
(***************************************************************************)
Min(a, b) == IF a < b THEN a ELSE b
Max(a, b) == IF a < b THEN b ELSE a

\* ImageCtx::prune_parent_extents on the single extent [start, start+len):
\* the part of it below the parent overlap; the return value (object
\* overlap) is the length that remains.
prune_parent_extents(start, len, overlap) == Max(0, Min(len, overlap - start))

\* Striper::extent_to_file for the non-striped layout: image offset of an
\* object-local offset.
extent_to_file(object_no, off) == object_no * ObjectSize + off

has_parent(rq) == rq.m_parent_extents > 0

\* AioObjectRequest::compute_parent_extents; overlap_ok is whether
\* get_parent_overlap succeeded.  The return value of the source equals
\* has_parent of the result.
\* (variant: the extent list is not cleared when the overlap is not
\* retrieved)
compute_parent_extents_keep(rq, overlap_ok) ==
  IF ~overlap_ok
  THEN [rq EXCEPT !.overlap_failed = TRUE]
  ELSE [rq EXCEPT !.m_parent_extents =
          prune_parent_extents(extent_to_file(rq.m_object_no, 0), @,
                               ictx.parent_overlap)]

compute_parent_extents(rq, overlap_ok) ==
  IF ~overlap_ok
  THEN [rq EXCEPT !.m_parent_extents = 0, !.overlap_failed = TRUE]
  ELSE [rq EXCEPT !.m_parent_extents =
          prune_parent_extents(extent_to_file(rq.m_object_no, 0), @,
                               ictx.parent_overlap)]

\* (variant: read_only is not consulted)
is_copy_on_read_ro(snap_id) ==
  /\ ictx.clone_copy_on_read
  /\ snap_id = "NOSNAP"
  /\ (ictx.exclusive_lock = "null" \/ ictx.exclusive_lock = "owner")

is_copy_on_read(snap_id) ==
  /\ ictx.clone_copy_on_read
  /\ ~ictx.read_only
  /\ snap_id = "NOSNAP"
  /\ (ictx.exclusive_lock = "null" \/ ictx.exclusive_lock = "owner")

\* (variant: the status is delivered without the hide_enoent rewrite)
Deliver_raw(rq, r) ==
  [rq EXCEPT !.delivered = @ + 1, !.delivered_r = r,
             !.destroyed = @ + 1, !.pc = "done"]

\* the completion sink is called and the request deletes itself
Deliver(rq, r) ==
  [rq EXCEPT !.delivered = @ + 1,
             !.delivered_r = IF rq.m_hide_enoent /\ r = -ENOENT THEN 0 ELSE r,
             !.destroyed = @ + 1,
             !.pc = "done"]

(***************************************************************************)
(* Read automaton.                                                         *)
(***************************************************************************)
\* AioObjectRead::send_copyup up to the acquisition of copyup_list_lock
read_send_copyup(rq, r, overlap_ok) ==
  LET c == compute_parent_extents(rq, overlap_ok)
  IN IF ~has_parent(c) \/ ictx.exclusive_lock = "other"
     THEN [rq |-> c, finished |-> TRUE]
     ELSE [rq |-> [c EXCEPT !.pc = "copyup_lock", !.cur_r = r],
           finished |-> FALSE]

\* (variant: the parent fallback does not set m_tried_parent)
read_should_complete_retry(rq, r, overlap_ok) ==
  CASE rq.m_state = "READ_GUARD" ->
         IF ~rq.m_tried_parent /\ r = -ENOENT
         THEN IF ~ictx.parent
              THEN [rq |-> [rq EXCEPT !.m_state = "READ_FLAT"],
                    finished |-> FALSE]
              ELSE LET object_overlap ==
                         IF overlap_ok
                         THEN prune_parent_extents(
                                extent_to_file(rq.m_object_no, rq.m_object_off),
                                rq.m_object_len, ictx.parent_overlap)
                         ELSE 0
                   IN IF object_overlap > 0
                      THEN [rq |-> [rq EXCEPT
                                      !.m_state = IF is_copy_on_read(rq.m_snap_id)
                                                  THEN "READ_COPYUP" ELSE @,
                                      !.decided_lock = ictx.exclusive_lock,
                                      !.pending = @ \cup {"parent"}],
                            finished |-> FALSE]
                      ELSE [rq |-> [rq EXCEPT !.overlap_failed = @ \/ ~overlap_ok],
                            finished |-> TRUE]
         ELSE [rq |-> rq, finished |-> TRUE]
    [] rq.m_state = "READ_COPYUP" ->
         IF r > 0
         THEN read_send_copyup(rq, r, overlap_ok)
         ELSE [rq |-> rq, finished |-> TRUE]
    [] OTHER -> [rq |-> rq, finished |-> TRUE]

read_should_complete(rq, r, overlap_ok) ==
  CASE rq.m_state = "READ_GUARD" ->
         IF ~rq.m_tried_parent /\ r = -ENOENT
         THEN IF ~ictx.parent
              THEN [rq |-> [rq EXCEPT !.m_state = "READ_FLAT"],
                    finished |-> FALSE]
              ELSE LET object_overlap ==
                         IF overlap_ok
                         THEN prune_parent_extents(
                                extent_to_file(rq.m_object_no, rq.m_object_off),
                                rq.m_object_len, ictx.parent_overlap)
                         ELSE 0
                   IN IF object_overlap > 0
                      THEN [rq |-> [rq EXCEPT
                                      !.m_tried_parent = TRUE,
                                      !.m_state = IF is_copy_on_read(rq.m_snap_id)
                                                  THEN "READ_COPYUP" ELSE @,
                                      !.decided_lock = ictx.exclusive_lock,
                                      !.pending = @ \cup {"parent"}],
                            finished |-> FALSE]
                      ELSE [rq |-> [rq EXCEPT !.overlap_failed = @ \/ ~overlap_ok],
                            finished |-> TRUE]
         ELSE [rq |-> rq, finished |-> TRUE]
    [] rq.m_state = "READ_COPYUP" ->
         IF r > 0
         THEN read_send_copyup(rq, r, overlap_ok)
         ELSE [rq |-> rq, finished |-> TRUE]
    [] OTHER -> [rq |-> rq, finished |-> TRUE]

(***************************************************************************)
(* Write-family automaton.                                                 *)
(***************************************************************************)
\* (variant: the batch object keeps its ops after the submission)
aio_operate_keep(batch) == batch

\* (variant: the mutation ops are handed over, the preconditions stay)
aio_operate_keep_preconditions(batch) ==
  SelectSeq(batch, LAMBDA op : op = "assert_exists")

\* librados aio_operate hands the ops of the batch to the in-flight
\* operation; what is left in the caller's batch object afterwards
aio_operate(batch) == <<>>

\* (variant: the state becomes GUARD but no precondition is added)
guard_write_no_assert(rq) ==
  IF has_parent(rq) THEN [rq EXCEPT !.m_state = "WRITE_GUARD"] ELSE rq

AbstractAioObjectWrite_guard_write(rq) ==
  IF has_parent(rq)
  THEN [rq EXCEPT !.m_state = "WRITE_GUARD",
                  !.m_write = Append(@, "assert_exists")]
  ELSE rq

guard_write(rq) ==
  IF rq.kind = "remove"
  THEN IF ictx.snaps THEN AbstractAioObjectWrite_guard_write(rq) ELSE rq
  ELSE AbstractAioObjectWrite_guard_write(rq)

is_write_full(rq) == rq.m_object_off = 0 /\ rq.m_object_len = ObjectSize

AioObjectWrite_add_write_ops(rq) ==
  LET hinted ==
        IF ictx.enable_alloc_hint /\ (~ictx.object_map \/ ~rq.m_object_exist)
        THEN Append(rq.m_write, "set_alloc_hint") ELSE rq.m_write
  IN [rq EXCEPT !.m_write =
        Append(hinted, IF is_write_full(rq) THEN "write_full" ELSE "write")]

\* virtual dispatch; the zero, truncate and remove variants add their one op
add_write_ops(rq) ==
  CASE rq.kind = "write" -> AioObjectWrite_add_write_ops(rq)
    [] rq.kind = "zero" -> [rq EXCEPT !.m_write = Append(@, "zero")]
    [] rq.kind = "truncate" -> [rq EXCEPT !.m_write = Append(@, "truncate")]
    [] OTHER -> [rq EXCEPT !.m_write = Append(@, "remove")]

send_write_op(rq, write_guard) ==
  LET a == [rq EXCEPT !.m_state = "WRITE_FLAT"]
      b == IF write_guard THEN guard_write(a) ELSE a
      c == add_write_ops(b)
  IN [c EXCEPT !.pending = @ \cup {"store"},
               !.submitted = Append(@, [ops |-> c.m_write,
                                        has_parent |-> has_parent(c),
                                        object_exist |-> c.m_object_exist]),
               !.m_write = aio_operate(c.m_write)]

\* AbstractAioObjectWrite::send_copyup up to copyup_list_lock.Lock()
send_copyup(rq) == [rq EXCEPT !.m_state = "WRITE_COPYUP", !.pc = "copyup_lock"]

RECURSIVE send_write(_, _)
\* (variant: the copyup is started whatever compute_parent_extents returns)
handle_write_guard_always_copyup(rq, overlap_ok) ==
  send_copyup(compute_parent_extents(rq, overlap_ok))

handle_write_guard(rq, overlap_ok) ==
  LET c == compute_parent_extents(rq, overlap_ok)
  IN IF has_parent(c) THEN send_copyup(c) ELSE send_write(c, overlap_ok)

AbstractAioObjectWrite_send_write(rq, overlap_ok) ==
  IF ~rq.m_object_exist /\ has_parent(rq)
  THEN handle_write_guard([rq EXCEPT !.m_state = "WRITE_GUARD"], overlap_ok)
  ELSE send_write_op(rq, TRUE)

\* (variant: the truncate has no special case for a missing object)
AioObjectTruncate_send_write_always(rq, overlap_ok) ==
  AbstractAioObjectWrite_send_write(rq, overlap_ok)

AioObjectTruncate_send_write(rq, overlap_ok) ==
  IF ~rq.m_object_exist /\ ~has_parent(rq)
  THEN [rq EXCEPT !.m_state = "WRITE_FLAT",
                  !.pending = @ \cup {"wq"},
                  !.queued_r = 0]
  ELSE AbstractAioObjectWrite_send_write(rq, overlap_ok)

send_write(rq, overlap_ok) ==
  CASE rq.kind = "write" ->
         IF is_write_full(rq) /\ ~has_parent(rq)
         THEN send_write_op(rq, FALSE)
         ELSE AbstractAioObjectWrite_send_write(rq, overlap_ok)
    [] rq.kind = "remove" -> send_write_op(rq, TRUE)
    [] rq.kind = "truncate" -> AioObjectTruncate_send_write(rq, overlap_ok)
    [] OTHER -> AbstractAioObjectWrite_send_write(rq, overlap_ok)

\* the variant hook: only remove and truncate override it; hook is what the
\* override answers
post_object_map_update(rq, hook) == rq.kind \in {"remove", "truncate"} /\ hook

send_post(rq, hook, update_required) ==
  IF ~ictx.object_map \/ ~post_object_map_update(rq, hook)
  THEN [rq |-> rq, finished |-> TRUE]
  ELSE IF ~update_required
       THEN [rq |-> rq, finished |-> TRUE]
       ELSE [rq |-> [rq EXCEPT !.m_state = "WRITE_POST",
                               !.pending = @ \cup {"map"}],
             finished |-> FALSE]

RECURSIVE complete(_, _, _)
\* (variant: the outer should_complete answers finished after the
\* re-entrant complete)
write_error_finished(rq, r, o) ==
  [rq |-> complete([rq EXCEPT !.m_state = "WRITE_ERROR"], r, o),
   finished |-> TRUE]

\* state <- ERROR and the re-entrant complete(r); the outer should_complete
\* then answers not-finished
write_error(rq, r, o) ==
  [rq |-> complete([rq EXCEPT !.m_state = "WRITE_ERROR"], r, o),
   finished |-> FALSE]

\* (variant: a successful map update does not go on to send_write)
should_complete_PRE_stall(rq, r, o) ==
  IF r < 0
  THEN [rq |-> rq, finished |-> TRUE]
  ELSE [rq |-> rq, finished |-> FALSE]

\* (variant: a failed map update is ignored and the write goes on)
should_complete_PRE_ignore_error(rq, r, o) ==
  [rq |-> send_write(rq, o.overlap_ok), finished |-> FALSE]

should_complete_PRE(rq, r, o) ==
  IF r < 0
  THEN [rq |-> rq, finished |-> TRUE]
  ELSE [rq |-> send_write(rq, o.overlap_ok), finished |-> FALSE]

\* (variant: -ENOENT is handled like every other negative status)
should_complete_GUARD_no_enoent(rq, r, o) ==
  IF r < 0
  THEN write_error(rq, r, o)
  ELSE send_post(rq, o.hook, o.update_required)

should_complete_GUARD(rq, r, o) ==
  IF r = -ENOENT
  THEN [rq |-> handle_write_guard(rq, o.overlap_ok), finished |-> FALSE]
  ELSE IF r < 0
       THEN write_error(rq, r, o)
       ELSE send_post(rq, o.hook, o.update_required)

\* (variant: a job status of 0 is taken for an error as well)
should_complete_COPYUP_nonpositive(rq, r, o) ==
  IF r <= 0
  THEN write_error(rq, r, o)
  ELSE send_post(rq, o.hook, o.update_required)

should_complete_COPYUP(rq, r, o) ==
  IF r < 0
  THEN write_error(rq, r, o)
  ELSE send_post(rq, o.hook, o.update_required)

should_complete_FLAT(rq, r, o) == send_post(rq, o.hook, o.update_required)

\* AbstractAioObjectWrite::should_complete
write_should_complete(rq, r, o) ==
  CASE rq.m_state = "WRITE_PRE" -> should_complete_PRE(rq, r, o)
    [] rq.m_state = "WRITE_POST" -> [rq |-> rq, finished |-> TRUE]
    [] rq.m_state = "WRITE_GUARD" -> should_complete_GUARD(rq, r, o)
    [] rq.m_state = "WRITE_COPYUP" -> should_complete_COPYUP(rq, r, o)
    [] rq.m_state = "WRITE_FLAT" -> should_complete_FLAT(rq, r, o)
    [] OTHER -> [rq |-> rq, finished |-> TRUE]

should_complete(rq, r, o) ==
  IF rq.kind = "read"
  THEN read_should_complete(rq, r, o.overlap_ok)
  ELSE write_should_complete(rq, r, o)

\* AioObjectRequest::complete.  A call on a request that was already
\* deleted is recorded in uaf.
complete(rq, r, o) ==
  IF rq.destroyed > 0
  THEN [rq EXCEPT !.uaf = TRUE]
  ELSE LET sc == should_complete(rq, r, o)
       IN IF sc.finished THEN Deliver(sc.rq, r) ELSE sc.rq

(***************************************************************************)
(* State.                                                                  *)
(***************************************************************************)
NullReq ==
  [kind |-> "none", m_object_no |-> 0, m_object_off |-> 0, m_object_len |-> 0,
   m_snap_id |-> "NOSNAP", m_hide_enoent |-> FALSE, m_parent_extents |-> 0,
   m_state |-> "none", m_tried_parent |-> FALSE, m_object_exist |-> FALSE,
   m_write |-> <<>>,
   \* control: "none", "new" (constructed), "wait" (between callbacks),
   \* "copyup_lock", "copyup_lookup", "copyup_send", "copyup_return"
   \* (inside send_copyup), "done" (deleted)
   pc |-> "none",
   \* asynchronous operations in flight whose callback calls complete()
   pending |-> {},
   queued_r |-> 0, cur_r |-> 0,
   \* history: has_parent() at construction; the batches submitted; the last
   \* status received; the last negative status other than -ENOENT the
   \* object store returned; whether a guarded batch returned -ENOENT; the
   \* exclusive lock when the parent fallback was decided; whether a retrieval
   \* of the parent overlap failed after construction; the copyup job
   \* joined, and the status it resumed the request with
   parent0 |-> FALSE, submitted |-> <<>>, last_r |-> 0, store_err |-> 0,
   guard_enoent |-> FALSE, decided_lock |-> "none", overlap_failed |-> FALSE,
   job |-> NoReq, appended |-> 0, resumed |-> 0, resumed_r |-> 0,
   delivered |-> 0, delivered_r |-> 0, destroyed |-> 0, uaf |-> FALSE]

NullJob ==
  [state |-> "none", object_no |-> 0, parent_extents |-> 0, pending |-> <<>>,
   r |-> 0, sends |-> 0, registered |-> FALSE, found |-> NoReq,
   locked |-> FALSE, send_locked |-> FALSE, by |-> "none"]

\* what the collaborators answer during one handler: whether
\* get_parent_overlap succeeds, object_may_exist, update_required, and the
\* variant's post_object_map_update override
Oracles ==
  [overlap_ok : BOOLEAN, may_exist : BOOLEAN, update_required : BOOLEAN,
   hook : BOOLEAN]
\* object_may_exist is asked in send() only
CallbackOracles == {o \in Oracles : o.may_exist}

(***************************************************************************)
(* Construction.                                                           *)
(***************************************************************************)
\* the ranges the factory functions and the read constructor can pass
RangeOK(kind, off, len) ==
  CASE kind = "remove" -> off = 0 /\ len = 0
    [] kind = "truncate" -> len = 0
    [] OTHER -> len >= 1 /\ off + len <= ObjectSize

\* AioObjectRead::guard_read
guard_read(rq) ==
  IF has_parent(rq) THEN [rq EXCEPT !.m_state = "READ_GUARD"] ELSE rq

\* the constructors: AioObjectRequest, then AioObjectRead or
\* AbstractAioObjectWrite; c is the image the request is constructed on
Construct(c, kind, obj, off, len, snap, hide, overlap_ok) ==
  LET base == [NullReq EXCEPT
                 !.kind = kind, !.m_object_no = obj, !.m_object_off = off,
                 !.m_object_len = len, !.m_snap_id = snap,
                 !.m_hide_enoent = hide,
                 !.m_parent_extents =
                    IF overlap_ok
                    THEN prune_parent_extents(extent_to_file(obj, 0),
                                              ObjectSize, c.parent_overlap)
                    ELSE 0,
                 !.pc = "new"]
      b == [base EXCEPT !.parent0 = has_parent(base)]
  IN IF kind = "read"
     THEN guard_read([b EXCEPT !.m_state = "READ_FLAT"])
     ELSE [b EXCEPT !.m_state = "WRITE_FLAT"]

\* every request the factory functions and the read constructor can build
\* on image c
Requests(c) ==
  {Construct(c, kind, obj, off, len, snap, hide, overlap_ok) :
     <<kind, obj, off, len, snap, hide, overlap_ok>> \in
       {t \in Kinds \X ObjNos \X (0..(ObjectSize - 1)) \X (0..ObjectSize)
                \X {"NOSNAP", "snap"} \X BOOLEAN \X BOOLEAN :
          /\ RangeOK(t[1], t[3], t[4])
          /\ t[1] = "read" => ~t[6]
          /\ t[1] # "read" => t[5] = "NOSNAP"}}

\* the requests of the concurrency specification: a read, a partial write
\* and a remove of every object, at the head revision
PeerRequests(c) ==
  {Construct(c, kind, obj, 0, IF kind = "remove" THEN 0 ELSE 1,
             "NOSNAP", FALSE, TRUE) :
     <<kind, obj>> \in {"read", "write", "remove"} \X ObjNos}

Images ==
  {c \in [clone_copy_on_read : BOOLEAN, read_only : BOOLEAN,
          exclusive_lock : {"null", "owner", "other"},
          object_map : BOOLEAN, enable_alloc_hint : BOOLEAN,
          snaps : BOOLEAN, parent : BOOLEAN,
          parent_overlap : 0..MaxOverlap] :
     /\ c.object_map => c.exclusive_lock = "owner"
     /\ ~c.parent => c.parent_overlap = 0}

\* one request, any image
Init ==
  /\ ictx \in Images
  /\ \E rq \in Requests(ictx) :
       req = [q \in Reqs |-> IF q = 1 THEN rq ELSE NullReq]
  /\ copyup_list = [n \in ObjNos |-> NoReq]
  /\ copyup_list_lock = NoReq
  /\ jobs = [j \in Reqs |-> NullJob]

\* MaxReq requests on one clone with copy-on-read enabled
CopyupInit ==
  /\ ictx \in {c \in Images :
                 /\ c.clone_copy_on_read /\ ~c.read_only
                 /\ ~c.enable_alloc_hint /\ c.snaps
                 /\ c.exclusive_lock = "owner"
                 /\ c.parent /\ c.parent_overlap = MaxOverlap}
  /\ req \in [Reqs -> PeerRequests(ictx)]
  /\ copyup_list = [n \in ObjNos |-> NoReq]
  /\ copyup_list_lock = NoReq
  /\ jobs = [j \in Reqs |-> NullJob]

(***************************************************************************)
(* send().                                                                 *)
(***************************************************************************)
\* (variant: the deferred callback is queued with status 0)
read_send_queue_zero(rq, may_exist) ==
  IF ictx.object_map /\ ~may_exist
  THEN [rq EXCEPT !.pending = @ \cup {"wq"}, !.queued_r = 0, !.pc = "wait"]
  ELSE [rq EXCEPT !.pending = @ \cup {"store"}, !.pc = "wait"]

\* AioObjectRead::send
read_send(rq, may_exist) ==
  IF ictx.object_map /\ ~may_exist
  THEN [rq EXCEPT !.pending = @ \cup {"wq"}, !.queued_r = -ENOENT, !.pc = "wait"]
  ELSE [rq EXCEPT !.pending = @ \cup {"store"}, !.pc = "wait"]

\* (variant: write is true after the map update was submitted, so send_write
\* runs while the update is in flight)
send_pre_no_return(rq, o) ==
  IF ~ictx.object_map
  THEN send_write([rq EXCEPT !.m_object_exist = TRUE, !.pc = "wait"],
                  o.overlap_ok)
  ELSE LET a == [rq EXCEPT !.m_object_exist = o.may_exist, !.pc = "wait"]
       IN IF o.update_required
          THEN send_write([a EXCEPT !.m_state = "WRITE_PRE",
                                    !.pending = @ \cup {"map"}], o.overlap_ok)
          ELSE send_write(a, o.overlap_ok)

\* AbstractAioObjectWrite::send_pre
send_pre(rq, o) ==
  IF ~ictx.object_map
  THEN send_write([rq EXCEPT !.m_object_exist = TRUE, !.pc = "wait"],
                  o.overlap_ok)
  ELSE LET a == [rq EXCEPT !.m_object_exist = o.may_exist, !.pc = "wait"]
       IN IF o.update_required
          THEN [a EXCEPT !.m_state = "WRITE_PRE", !.pending = @ \cup {"map"}]
          ELSE send_write(a, o.overlap_ok)

Send(q) ==
  /\ req[q].pc = "new"
  /\ \E o \in Oracles :
       IF req[q].kind = "read"
       THEN req' = [req EXCEPT ![q] = read_send(@, o.may_exist)]
       ELSE \* send_pre asserts the exclusive lock is owned when a map exists
            /\ ictx.object_map => ictx.exclusive_lock = "owner"
            /\ req' = [req EXCEPT ![q] = send_pre(@, o)]
  /\ UNCHANGED <<ictx, copyup_list, copyup_list_lock, jobs>>

(***************************************************************************)
(* Callbacks: each re-enters complete(r).                                  *)
(***************************************************************************)
Callback(q, op, r, o) ==
  req' = [req EXCEPT ![q] =
            complete([@ EXCEPT
                        !.pending = @ \ {op},
                        !.last_r = r,
                        !.store_err = IF op = "store" /\ r < 0 /\ r # -ENOENT
                                      THEN r ELSE @,
                        !.guard_enoent = @ \/ (/\ op = "store" /\ r = -ENOENT
                                               /\ req[q].m_state = "WRITE_GUARD")],
                     r, o)]

\* completion of an object-store read or write batch
StoreCallback(q) ==
  /\ "store" \in req[q].pending
  /\ \E r \in (IF req[q].kind = "read" THEN Statuses ELSE UpdateStatuses),
        o \in CallbackOracles : Callback(q, "store", r, o)
  /\ UNCHANGED <<ictx, copyup_list, copyup_list_lock, jobs>>

\* completion of an object-map aio_update
MapCallback(q) ==
  /\ "map" \in req[q].pending
  /\ \E r \in UpdateStatuses, o \in CallbackOracles : Callback(q, "map", r, o)
  /\ UNCHANGED <<ictx, copyup_list, copyup_list_lock, jobs>>

\* op_work_queue runs a queued context with the status it was queued with
WorkQueueCallback(q) ==
  /\ "wq" \in req[q].pending
  /\ \E o \in CallbackOracles : Callback(q, "wq", req[q].queued_r, o)
  /\ UNCHANGED <<ictx, copyup_list, copyup_list_lock, jobs>>

\* completion of the parent read started by read_from_parent
ParentReadCallback(q) ==
  /\ "parent" \in req[q].pending
  /\ \E r \in Statuses, o \in CallbackOracles : Callback(q, "parent", r, o)
  /\ UNCHANGED <<ictx, copyup_list, copyup_list_lock, jobs>>

(***************************************************************************)
(* send_copyup from the acquisition of copyup_list_lock on.                *)
(***************************************************************************)
CopyupLock(q) ==
  /\ req[q].pc = "copyup_lock"
  /\ copyup_list_lock = NoReq
  /\ copyup_list_lock' = q
  /\ req' = [req EXCEPT ![q].pc = "copyup_lookup"]
  /\ UNCHANGED <<ictx, copyup_list, jobs>>

\* (variant: the lookup result is not consulted, a job is always created)
copyup_find_none(list, object_no) == NoReq

\* copyup_list.find(m_object_no); NoReq stands for end()
copyup_find(list, object_no) == list[object_no]

NewJob(q, waiters) ==
  [NullJob EXCEPT !.state = "created", !.object_no = req[q].m_object_no,
                  !.parent_extents = req[q].m_parent_extents,
                  !.pending = waiters, !.registered = TRUE,
                  !.found = copyup_list[req[q].m_object_no],
                  !.locked = (copyup_list_lock = q),
                  !.by = req[q].kind]

\* (variant: the creating write is not appended to its job)
new_job_waiters_none(q) == <<>>

\* the waiters of the job a write creates: append_request(this)
new_job_waiters(q) == <<q>>

\* AbstractAioObjectWrite::send_copyup, from find() to Unlock()
WriteCopyupLookup(q) ==
  /\ req[q].pc = "copyup_lookup"
  /\ req[q].kind # "read"
  /\ LET it == copyup_find(copyup_list, req[q].m_object_no)
     IN IF it = NoReq
        THEN /\ jobs' = [jobs EXCEPT ![q] = NewJob(q, new_job_waiters(q))]
             /\ copyup_list' = [copyup_list EXCEPT ![req[q].m_object_no] = q]
             /\ req' = [req EXCEPT ![q].m_parent_extents = 0,
                                   ![q].pending = @ \cup {"job"},
                                   ![q].job = q,
                                   ![q].appended = @ + 1,
                                   ![q].pc = "copyup_send"]
        ELSE /\ jobs' = [jobs EXCEPT ![it].pending = Append(@, q)]
             /\ copyup_list' = copyup_list
             /\ req' = [req EXCEPT ![q].pending = @ \cup {"job"},
                                   ![q].job = it,
                                   ![q].appended = @ + 1,
                                   ![q].pc = "wait"]
  /\ copyup_list_lock' = NoReq
  /\ UNCHANGED ictx

\* AioObjectRead::send_copyup, find() and insert; the Mutex::Locker keeps
\* the lock until the function returns
ReadCopyupLookup(q) ==
  /\ req[q].pc = "copyup_lookup"
  /\ req[q].kind = "read"
  /\ LET it == copyup_find(copyup_list, req[q].m_object_no)
     IN IF it = NoReq
        THEN /\ jobs' = [jobs EXCEPT ![q] = NewJob(q, <<>>)]
             /\ copyup_list' = [copyup_list EXCEPT ![req[q].m_object_no] = q]
             /\ req' = [req EXCEPT ![q].m_parent_extents = 0,
                                   ![q].pc = "copyup_send"]
        ELSE /\ req' = [req EXCEPT ![q].pc = "copyup_return"]
             /\ UNCHANGED <<jobs, copyup_list>>
  /\ UNCHANGED <<ictx, copyup_list_lock>>

\* new_req->send()
CopyupSend(q) ==
  /\ req[q].pc = "copyup_send"
  /\ jobs' = [jobs EXCEPT ![q].state = "sent", ![q].sends = @ + 1,
                          ![q].send_locked = (copyup_list_lock # NoReq)]
  /\ req' = [req EXCEPT ![q].pc = IF req[q].kind = "read"
                                  THEN "copyup_return" ELSE "wait"]
  /\ UNCHANGED <<ictx, copyup_list, copyup_list_lock>>

\* (variant: the read returns only once the job it started has terminated)
ReadCopyupReturn_wait(q) ==
  /\ req[q].pc = "copyup_return"
  /\ jobs[q].state \in {"none", "done"}
  /\ copyup_list_lock' = NoReq
  /\ req' = [req EXCEPT ![q] = Deliver(@, req[q].cur_r)]
  /\ UNCHANGED <<ictx, copyup_list, jobs>>

\* AioObjectRead::send_copyup returns (the lock is released), should_complete
\* returns finished and complete() delivers
ReadCopyupReturn(q) ==
  /\ req[q].pc = "copyup_return"
  /\ copyup_list_lock' = NoReq
  /\ req' = [req EXCEPT ![q] = Deliver(@, req[q].cur_r)]
  /\ UNCHANGED <<ictx, copyup_list, jobs>>

(***************************************************************************)
(* The copyup job (CopyupRequest).                                         *)
(***************************************************************************)
\* the job's terminal step: it leaves the registry under copyup_list_lock
JobTerminate(j) ==
  /\ jobs[j].state = "sent"
  /\ copyup_list_lock = NoReq
  /\ \E r \in UpdateStatuses :
       jobs' = [jobs EXCEPT ![j].r = r, ![j].registered = FALSE,
                            ![j].state = IF jobs[j].pending = <<>>
                                         THEN "done" ELSE "resuming"]
  /\ copyup_list' = [copyup_list EXCEPT ![jobs[j].object_no] =
                       IF @ = j THEN NoReq ELSE @]
  /\ UNCHANGED <<ictx, req, copyup_list_lock>>

\* the job resumes its next waiter with its terminal status
JobResume(j) ==
  /\ jobs[j].state = "resuming"
  /\ LET w == Head(jobs[j].pending)
     IN /\ \E o \in CallbackOracles :
             req' = [req EXCEPT ![w] =
                       complete([@ EXCEPT !.pending = @ \ {"job"},
                                          !.resumed = @ + 1,
                                          !.last_r = jobs[j].r,
                                          !.resumed_r = jobs[j].r],
                                jobs[j].r, o)]
        /\ jobs' = [jobs EXCEPT ![j].pending = Tail(@),
                                ![j].state = IF Len(jobs[j].pending) = 1
                                             THEN "done" ELSE "resuming"]
  /\ UNCHANGED <<ictx, copyup_list, copyup_list_lock>>

(***************************************************************************)
(* The image changes under the requests.                                   *)
(***************************************************************************)
\* the parent overlap shrinks (the clone is resized, or partly flattened)
ParentOverlapShrink ==
  /\ ictx.parent_overlap > 0
  /\ ictx' = [ictx EXCEPT !.parent_overlap = @ - 1]
  /\ UNCHANGED <<req, copyup_list, copyup_list_lock, jobs>>

\* the clone is flattened: the parent is gone
ParentRemoved ==
  /\ ictx.parent
  /\ ictx' = [ictx EXCEPT !.parent = FALSE, !.parent_overlap = 0]
  /\ UNCHANGED <<req, copyup_list, copyup_list_lock, jobs>>

WriteInFlight ==
  \E q \in Reqs : req[q].kind \in WriteKinds /\ req[q].pc \notin {"new", "done"}

\* the exclusive lock is lost; with an object map the writes in flight are
\* flushed first
ExclusiveLockLost ==
  /\ ictx.exclusive_lock = "owner"
  /\ ~(ictx.object_map /\ WriteInFlight)
  /\ ictx' = [ictx EXCEPT !.exclusive_lock = "other"]
  /\ UNCHANGED <<req, copyup_list, copyup_list_lock, jobs>>

ExclusiveLockAcquired ==
  /\ ictx.exclusive_lock = "other"
  /\ ictx' = [ictx EXCEPT !.exclusive_lock = "owner"]
  /\ UNCHANGED <<req, copyup_list, copyup_list_lock, jobs>>

Next ==
  \/ \E q \in Reqs : Send(q)
  \/ \E q \in Reqs : StoreCallback(q)
  \/ \E q \in Reqs : MapCallback(q)
  \/ \E q \in Reqs : WorkQueueCallback(q)
  \/ \E q \in Reqs : ParentReadCallback(q)
  \/ \E q \in Reqs : CopyupLock(q)
  \/ \E q \in Reqs : WriteCopyupLookup(q)
  \/ \E q \in Reqs : ReadCopyupLookup(q)
  \/ \E q \in Reqs : CopyupSend(q)
  \/ \E q \in Reqs : ReadCopyupReturn(q)
  \/ \E j \in Reqs : JobTerminate(j)
  \/ \E j \in Reqs : JobResume(j)
  \/ ParentOverlapShrink
  \/ ParentRemoved
  \/ ExclusiveLockLost
  \/ ExclusiveLockAcquired

Spec == Init /\ [][Next]_vars

CopyupSpec == CopyupInit /\ [][Next]_vars

\* every callback a request waits for eventually arrives, every thread
\* inside send_copyup eventually proceeds, every copyup job eventually
\* terminates and resumes its waiters
Fairness ==
  \A q \in Reqs :
    /\ WF_vars(StoreCallback(q))
    /\ WF_vars(MapCallback(q))
    /\ WF_vars(WorkQueueCallback(q))
    /\ WF_vars(ParentReadCallback(q))
    /\ WF_vars(CopyupLock(q))
    /\ WF_vars(WriteCopyupLookup(q))
    /\ WF_vars(ReadCopyupLookup(q))
    /\ WF_vars(CopyupSend(q))
    /\ WF_vars(ReadCopyupReturn(q))
    /\ WF_vars(JobTerminate(q))
    /\ WF_vars(JobResume(q))

\* the images of the liveness check: the two flags only is_copy_on_read
\* reads are fixed to the values that permit copy-on-read
LiveInit == Init /\ ictx.clone_copy_on_read /\ ~ictx.read_only

LiveSpec == LiveInit /\ [][Next]_vars /\ Fairness

\* as Fairness, but a copyup job need not ever terminate
ReadFairness ==
  \A q \in Reqs :
    /\ WF_vars(StoreCallback(q))
    /\ WF_vars(MapCallback(q))
    /\ WF_vars(WorkQueueCallback(q))
    /\ WF_vars(ParentReadCallback(q))
    /\ WF_vars(CopyupLock(q))
    /\ WF_vars(WriteCopyupLookup(q))
    /\ WF_vars(ReadCopyupLookup(q))
    /\ WF_vars(CopyupSend(q))
    /\ WF_vars(ReadCopyupReturn(q))

ReadLiveSpec == LiveInit /\ [][Next]_vars /\ ReadFairness

(***************************************************************************)
(* Properties.                                                             *)
(***************************************************************************)
IsWrite(q) == req[q].kind \in WriteKinds
IsRead(q) == req[q].kind = "read"
HasAssert(batch) == \E i \in 1..Len(batch.ops) : batch.ops[i] = "assert_exists"

\* C1: the completion sink receives at most one delivery per request, the
\* request is deleted at most once and together with that delivery, no
\* callback is outstanding on a deleted request and none ever ran on one;
\* this includes the GUARD and COPYUP error paths with the re-entrant
\* complete(r).
C1_AtMostOneDelivery ==
  \A q \in Reqs :
    /\ req[q].delivered <= 1
    /\ req[q].destroyed <= 1
    /\ req[q].destroyed = req[q].delivered
    /\ (req[q].pc = "done") = (req[q].destroyed = 1)
    /\ req[q].pc = "done" => req[q].pending = {}
    /\ ~req[q].uaf

\* a write-family request that went through the re-entrant complete(r)
C1_Witness ==
  \E q \in Reqs :
    /\ IsWrite(q) /\ req[q].m_state = "WRITE_ERROR"
    /\ req[q].delivered = 1 /\ req[q].pc = "done"

\* C5: a request constructed with hide_enoent = true never delivers
\* -ENOENT: a terminal -ENOENT is delivered as 0 and every other terminal
\* status as it is, in whatever state the automaton ends.
C5_HideEnoent ==
  \A q \in Reqs :
    (req[q].delivered = 1 /\ req[q].m_hide_enoent) =>
      /\ req[q].delivered_r # -ENOENT
      /\ req[q].delivered_r = IF req[q].last_r = -ENOENT THEN 0 ELSE req[q].last_r

\* a request with hide_enoent that ended in ERROR on -ENOENT, delivered as 0
C5_Witness ==
  \E q \in Reqs :
    /\ req[q].m_hide_enoent /\ req[q].delivered = 1
    /\ req[q].m_state = "WRITE_ERROR"
    /\ req[q].last_r = -ENOENT /\ req[q].delivered_r = 0

\* C10: a negative status other than -ENOENT that the object store returned
\* for a request's batch is what the completion sink receives.
C10_StoreErrorDelivered ==
  \A q \in Reqs :
    (req[q].delivered = 1 /\ req[q].store_err # 0) =>
      req[q].delivered_r = req[q].store_err

\* C2: a write-family request between two callbacks always has an operation
\* in flight, and once send() was called its completion is eventually
\* delivered, provided every operation it waits for calls back.
C2_WritesComplete ==
  /\ [](\A q \in Reqs : (IsWrite(q) /\ req[q].pc = "wait") => req[q].pending # {})
  /\ \A q \in Reqs :
       (IsWrite(q) /\ req[q].pc \notin {"none", "new"}) ~> (req[q].delivered = 1)

\* a write-family request that waited for a copyup job and was delivered
C2_Witness ==
  \E q \in Reqs : IsWrite(q) /\ req[q].resumed = 1 /\ req[q].delivered = 1

\* C3: the registry never holds two jobs for one object_no (no job is
\* replaced while it is registered), and every job was created under
\* copyup_list_lock after a lookup that found no job for its object_no.
C3_OneJobPerObject ==
  /\ \A j1, j2 \in Reqs :
       (j1 # j2 /\ jobs[j1].registered /\ jobs[j2].registered) =>
         jobs[j1].object_no # jobs[j2].object_no
  /\ \A j \in Reqs : jobs[j].registered => copyup_list[jobs[j].object_no] = j
  /\ \A n \in ObjNos :
       copyup_list[n] # NoReq =>
         jobs[copyup_list[n]].registered /\ jobs[copyup_list[n]].object_no = n
  /\ \A j \in Reqs :
       jobs[j].state # "none" => jobs[j].found = NoReq /\ jobs[j].locked

\* a write joined, as a waiter, the registered job a read created
C3_Witness ==
  \E j \in Reqs :
    /\ jobs[j].by = "read" /\ jobs[j].registered
    /\ Len(jobs[j].pending) = 1

\* C4: the write-family requests that call send_copyup for one object while
\* a job for it is in flight share that job; the job's send() runs once;
\* each request is appended once and resumed once, with the job's status.
C4_Coalesced ==
  /\ \A j \in Reqs :
       /\ jobs[j].sends <= 1
       /\ jobs[j].state \in {"sent", "resuming", "done"} => jobs[j].sends = 1
       /\ jobs[j].state = "done" =>
            \A q \in Reqs : req[q].job = j => req[q].resumed = 1
  /\ \A q \in Reqs :
       IsWrite(q) =>
         /\ req[q].appended <= 1
         /\ req[q].resumed <= req[q].appended
         /\ "job" \in req[q].pending =>
              /\ req[q].appended = 1 /\ req[q].resumed = 0
              /\ req[q].job # NoReq
              /\ Cardinality({i \in 1..Len(jobs[req[q].job].pending) :
                                jobs[req[q].job].pending[i] = q}) = 1
         /\ req[q].resumed = 1 =>
              /\ jobs[req[q].job].state \in {"resuming", "done"}
              /\ req[q].resumed_r = jobs[req[q].job].r
  /\ \A q1, q2 \in Reqs :
       (/\ IsWrite(q1) /\ IsWrite(q2)
        /\ "job" \in req[q1].pending /\ "job" \in req[q2].pending
        /\ req[q1].m_object_no = req[q2].m_object_no
        /\ jobs[req[q1].job].state \in {"created", "sent"}
        /\ jobs[req[q2].job].state \in {"created", "sent"}) =>
         req[q1].job = req[q2].job

\* two writes of one object shared a job and both were resumed with its status
C4_Witness ==
  \E j, q1, q2 \in Reqs :
    /\ q1 # q2 /\ IsWrite(q1) /\ IsWrite(q2)
    /\ jobs[j].state = "done" /\ jobs[j].sends = 1
    /\ req[q1].job = j /\ req[q2].job = j
    /\ req[q1].resumed = 1 /\ req[q2].resumed = 1

\* C6 as stated: a write-family request that has a parent (when it is
\* constructed and still when it submits) and whose object was reported
\* non-existent submits as its first batch either a batch with
\* assert_exists or a full-object write made without a parent.
C6_FirstBatchGuarded ==
  \A q \in Reqs :
    (IsWrite(q) /\ Len(req[q].submitted) >= 1
       /\ req[q].parent0 /\ req[q].submitted[1].has_parent
       /\ ~req[q].m_object_exist) =>
      \/ HasAssert(req[q].submitted[1])
      \/ /\ req[q].kind = "write" /\ is_write_full(req[q])
         /\ ~req[q].submitted[1].has_parent

\* C6 amended: the first batch of a write-family request that had a parent
\* when constructed and whose object was reported non-existent carries
\* assert_exists, unless it is made when the request no longer has a parent
\* or it is the remove of an image without snapshots.
C6_FirstBatchGuardedUnlessNoParentOrPlainRemove ==
  \A q \in Reqs :
    (IsWrite(q) /\ Len(req[q].submitted) >= 1
       /\ req[q].parent0 /\ ~req[q].m_object_exist) =>
      \/ HasAssert(req[q].submitted[1])
      \/ ~req[q].submitted[1].has_parent
      \/ req[q].kind = "remove" /\ ~ictx.snaps

\* a remove on an image with snapshots, parent present, object reported
\* non-existent: its first batch carries assert_exists
C6_Witness ==
  \E q \in Reqs :
    /\ req[q].kind = "remove" /\ ictx.snaps
    /\ req[q].parent0 /\ ~req[q].m_object_exist
    /\ Len(req[q].submitted) >= 1 /\ HasAssert(req[q].submitted[1])

\* C7: no batch a full-object write submits while it has no parent carries
\* assert_exists, the resubmission after a guarded batch's -ENOENT included.
C7_FullWriteUnguarded ==
  \A q \in Reqs :
    (req[q].kind = "write" /\ is_write_full(req[q])) =>
      \A i \in 1..Len(req[q].submitted) :
        ~req[q].submitted[i].has_parent => ~HasAssert(req[q].submitted[i])

\* a full-object write resubmitted without a parent after a guarded batch
C7_Witness ==
  \E q \in Reqs :
    /\ req[q].kind = "write" /\ is_write_full(req[q])
    /\ Len(req[q].submitted) = 2
    /\ HasAssert(req[q].submitted[1])
    /\ ~req[q].submitted[2].has_parent

\* C8: a read creates a copyup job only if copy-on-read was permitted when
\* the parent fallback was decided (clone_copy_on_read, not read_only, head
\* revision, exclusive lock absent or owned), the parent read returned
\* r > 0 and parent extents remained.
C8_ReadCopyupOnlyIfEligible ==
  \A q \in Reqs :
    (IsRead(q) /\ jobs[q].state # "none") =>
      /\ ictx.clone_copy_on_read /\ ~ictx.read_only
      /\ req[q].m_snap_id = "NOSNAP"
      /\ req[q].decided_lock \in {"null", "owner"}
      /\ req[q].m_tried_parent
      /\ req[q].last_r > 0
      /\ jobs[q].parent_extents > 0

\* a read created and started a copyup job
C8_Witness ==
  \E q \in Reqs : IsRead(q) /\ jobs[q].state = "sent" /\ jobs[q].by = "read"

\* C9 as stated: a write-family request never delivers -ENOENT.
C9_WriteNeverEnoent ==
  \A q \in Reqs :
    (IsWrite(q) /\ req[q].delivered = 1) => req[q].delivered_r # -ENOENT

\* C9 amended: an -ENOENT returned for a guarded batch (state GUARD) is never
\* delivered: the request goes to a copyup or resubmits without
\* assert_exists; a write-family request delivers -ENOENT only when
\* hide_enoent is false and the -ENOENT arrived in PRE, FLAT, POST or, from
\* the copyup job, in COPYUP.
C9_GuardEnoentNotDelivered ==
  \A q \in Reqs :
    IsWrite(q) =>
      /\ req[q].guard_enoent =>
           \/ req[q].pc \in {"copyup_lock", "copyup_lookup", "copyup_send"}
           \/ req[q].appended = 1
           \/ /\ Len(req[q].submitted) = 2
              /\ ~HasAssert(req[q].submitted[2])
      /\ (req[q].delivered = 1 /\ req[q].delivered_r = -ENOENT) =>
           /\ ~req[q].m_hide_enoent
           /\ req[q].last_r = -ENOENT
           /\ req[q].m_state \in {"WRITE_PRE", "WRITE_FLAT", "WRITE_POST",
                                  "WRITE_ERROR"}
           /\ req[q].m_state = "WRITE_ERROR" => req[q].resumed = 1

\* a guarded batch returned -ENOENT, the write was resubmitted and delivered 0
C9_Witness ==
  \E q \in Reqs :
    /\ IsWrite(q) /\ req[q].guard_enoent
    /\ Len(req[q].submitted) = 2
    /\ req[q].delivered = 1 /\ req[q].delivered_r = 0

\* C11: a live request has at most one asynchronous operation in flight
\* whose callback re-enters complete() on it; while a thread is inside the
\* request's send_copyup no callback can arrive (nothing is in flight, or
\* only the membership in a job that was not sent yet); complete() never
\* runs on a request that another complete() deleted.
C11_OneOperationInFlight ==
  \A q \in Reqs :
    /\ Cardinality(req[q].pending) <= 1
    /\ req[q].pc \in {"copyup_lock", "copyup_lookup", "copyup_return"} =>
         req[q].pending = {}
    /\ req[q].pc = "copyup_send" =>
         \/ req[q].pending = {}
         \/ /\ req[q].pending = {"job"} /\ req[q].job = q
            /\ jobs[q].state = "created"
    /\ ~req[q].uaf

\* a write whose guarded batch came back with -ENOENT now waits for a copyup
\* job and for nothing else
C11_Witness ==
  \E q \in Reqs :
    /\ IsWrite(q) /\ req[q].guard_enoent
    /\ Len(req[q].submitted) = 1
    /\ req[q].pending = {"job"} /\ req[q].pc = "wait"

\* a truncate that went through send_write with its object reported
\* non-existent and without a parent (it joined no copyup job)
TruncateNoop(q) ==
  /\ req[q].kind = "truncate" /\ req[q].pc \in {"wait", "done"}
  /\ ~req[q].m_object_exist /\ req[q].appended = 0
  /\ req[q].m_state \in {"WRITE_FLAT", "WRITE_POST"}

\* C12: a truncate whose object is reported non-existent and which has no
\* parent submits no batch; the handler that reaches send_write (send, or
\* the callback of the map pre-update) leaves it undelivered with a callback
\* of status 0 queued on the work queue; it is eventually delivered, with 0
\* unless a required object-map post-update ran, whose status is then
\* delivered.
C12_TruncateNoopViaWorkQueue ==
  /\ [](\A q \in Reqs :
         TruncateNoop(q) =>
           /\ req[q].submitted = <<>> /\ "store" \notin req[q].pending
           /\ req[q].pc = "wait" =>
                \/ /\ req[q].m_state = "WRITE_FLAT"
                   /\ req[q].pending = {"wq"} /\ req[q].queued_r = 0
                \/ /\ req[q].m_state = "WRITE_POST"
                   /\ req[q].pending = {"map"}
           /\ req[q].pc = "done" =>
                \/ req[q].m_state = "WRITE_FLAT" /\ req[q].delivered_r = 0
                \/ /\ req[q].m_state = "WRITE_POST"
                   /\ req[q].delivered_r =
                        IF req[q].m_hide_enoent /\ req[q].last_r = -ENOENT
                        THEN 0 ELSE req[q].last_r)
  /\ [][\A q \in Reqs :
          (~TruncateNoop(q) /\ TruncateNoop(q)') =>
            /\ req'[q].delivered = 0
            /\ req'[q].pending = {"wq"}]_vars
  /\ \A q \in Reqs : TruncateNoop(q) ~> (req[q].delivered = 1)

\* such a truncate was delivered 0 from the work-queue callback
C12_Witness ==
  \E q \in Reqs :
    /\ TruncateNoop(q) /\ req[q].submitted = <<>>
    /\ req[q].m_state = "WRITE_FLAT" /\ ictx.object_map
    /\ req[q].delivered = 1 /\ req[q].delivered_r = 0

\* C13: a read is never a waiter of a copyup job and is never resumed by
\* one; a read that ends in COPYUP delivers the status of its parent read;
\* and once in COPYUP it is eventually delivered even if no copyup job ever
\* terminates.
C13_ReadCopyupFireAndForget ==
  /\ [](\A q \in Reqs :
         IsRead(q) =>
           /\ req[q].appended = 0 /\ req[q].resumed = 0
           /\ "job" \notin req[q].pending
           /\ \A j \in Reqs : \A i \in 1..Len(jobs[j].pending) :
                jobs[j].pending[i] # q
           /\ (req[q].delivered = 1 /\ req[q].m_state = "READ_COPYUP") =>
                req[q].delivered_r = req[q].last_r)
  /\ \A q \in Reqs :
       (IsRead(q) /\ req[q].m_state = "READ_COPYUP") ~> (req[q].delivered = 1)

\* a read was delivered the bytes of the parent read while the job it
\* started is still running
C13_Witness ==
  \E q \in Reqs :
    /\ IsRead(q) /\ jobs[q].state = "sent" /\ jobs[q].pending = <<>>
    /\ req[q].delivered = 1 /\ req[q].delivered_r = 1

\* C14: a read that was in GUARD, had not tried the parent and got -ENOENT
\* when the image's parent was gone (it is then in FLAT although it was
\* constructed with parent extents) is eventually delivered -ENOENT.
C14_ParentGoneReadCompletes ==
  \A q \in Reqs :
    (/\ IsRead(q) /\ req[q].parent0 /\ req[q].m_state = "READ_FLAT"
     /\ ~req[q].m_tried_parent /\ req[q].last_r = -ENOENT)
      ~> (req[q].delivered = 1 /\ req[q].delivered_r = -ENOENT)

IsMutationOp(op) == op \in {"write", "write_full", "zero", "truncate", "remove"}

\* C15: when a guarded batch returned -ENOENT and handle_write_guard found no
\* parent extents, the request resubmits once, without a parent; the new
\* batch has no assert_exists, exactly one mutation op (the variant's own)
\* and no op twice.
C15_ResubmitUnguardedOnce ==
  \A q \in Reqs :
    (IsWrite(q) /\ req[q].guard_enoent /\ Len(req[q].submitted) >= 2) =>
      LET ops == req[q].submitted[2].ops
      IN /\ Len(req[q].submitted) = 2
         /\ ~req[q].submitted[2].has_parent
         /\ ~HasAssert(req[q].submitted[2])
         /\ Len(SelectSeq(ops, IsMutationOp)) = 1
         /\ \A i, j \in 1..Len(ops) : ops[i] = ops[j] => i = j
         /\ \E i \in 1..Len(ops) :
              ops[i] = IF req[q].kind = "write"
                       THEN (IF is_write_full(req[q]) THEN "write_full"
                             ELSE "write")
                       ELSE req[q].kind

\* a zero request resubmitted its single op after the guarded batch
C15_Witness ==
  \E q \in Reqs :
    /\ req[q].kind = "zero" /\ req[q].guard_enoent
    /\ Len(req[q].submitted) = 2
    /\ req[q].submitted[1].ops = <<"assert_exists", "zero">>
    /\ req[q].submitted[2].ops = <<"zero">>

\* the write-family request q has called send_copyup
EnteredCopyup(q) ==
  /\ IsWrite(q)
  /\ \/ req[q].pc \in {"copyup_lock", "copyup_lookup", "copyup_send"}
     \/ req[q].appended = 1

\* C16 as stated: a write-family request calls send_copyup only after a
\* batch it submitted with assert_exists came back with -ENOENT.
C16_CopyupOnlyAfterGuardEnoent ==
  \A q \in Reqs :
    EnteredCopyup(q) =>
      /\ req[q].guard_enoent
      /\ Len(req[q].submitted) = 1 /\ HasAssert(req[q].submitted[1])

\* C16 amended: a write-family request calls send_copyup only with parent
\* extents left by handle_write_guard, and either after its one batch, which
\* carried assert_exists, came back with -ENOENT, or, for a write, zero or
\* truncate whose object the object map reported non-existent, directly
\* from send_write without having submitted any batch.
C16_CopyupAfterGuardEnoentOrMapMiss ==
  \A q \in Reqs :
    EnteredCopyup(q) =>
      /\ req[q].parent0
      /\ req[q].pc \in {"copyup_lock", "copyup_lookup"} => has_parent(req[q])
      /\ \/ /\ req[q].guard_enoent
            /\ Len(req[q].submitted) = 1 /\ HasAssert(req[q].submitted[1])
         \/ /\ ~req[q].guard_enoent
            /\ req[q].submitted = <<>>
            /\ ~req[q].m_object_exist /\ ictx.object_map
            /\ req[q].kind # "remove"

\* a write joined a copyup job without having submitted a batch
C16_Witness ==
  \E q \in Reqs :
    /\ req[q].kind = "write" /\ req[q].appended = 1
    /\ req[q].submitted = <<>> /\ ~req[q].guard_enoent
    /\ "job" \in req[q].pending

\* send_write has run on the write-family request record rq and left it
\* waiting: an operation is in flight or the request is inside send_copyup
SendWriteRan(rq) ==
  /\ rq.m_state # "WRITE_PRE" /\ rq.delivered = 0
  /\ rq.pending # {} \/ rq.pc = "copyup_lock"

\* C17: a write-family request is in PRE only on an image with an object
\* map, and while it is there it has submitted no batch and joined no job
\* and waits for the map update alone; the map callback with r < 0
\* delivers r (after the hide_enoent rewrite) with no batch ever submitted,
\* and with r >= 0 runs send_write; send() either enters PRE or runs
\* send_write directly; without an object map m_object_exist is true and
\* PRE is never entered.
C17_PreUpdateGate ==
  /\ [](\A q \in Reqs :
         IsWrite(q) =>
           /\ req[q].m_state = "WRITE_PRE" =>
                /\ ictx.object_map
                /\ req[q].submitted = <<>> /\ req[q].appended = 0
                /\ req[q].pc \in {"wait", "done"}
                /\ req[q].pc = "wait" => req[q].pending = {"map"}
                /\ req[q].pc = "done" =>
                     /\ req[q].last_r < 0
                     /\ req[q].delivered_r =
                          IF req[q].m_hide_enoent /\ req[q].last_r = -ENOENT
                          THEN 0 ELSE req[q].last_r
           /\ (~ictx.object_map /\ req[q].pc \notin {"none", "new"}) =>
                req[q].m_object_exist /\ req[q].m_state # "WRITE_PRE")
  /\ [][\A q \in Reqs :
          /\ (IsWrite(q) /\ req[q].m_state = "WRITE_PRE"
                /\ req[q].pc = "wait" /\ req'[q] # req[q]) =>
               IF req'[q].last_r < 0
               THEN /\ req'[q].delivered = 1 /\ req'[q].submitted = <<>>
                    /\ req'[q].m_state = "WRITE_PRE"
               ELSE SendWriteRan(req'[q])
          /\ (IsWrite(q) /\ req[q].pc = "new" /\ req'[q] # req[q]) =>
               \/ /\ req'[q].m_state = "WRITE_PRE"
                  /\ req'[q].pending = {"map"} /\ req'[q].submitted = <<>>
               \/ SendWriteRan(req'[q])]_vars

\* the map pre-update failed and its status was delivered, nothing submitted
C17_Witness ==
  \E q \in Reqs :
    /\ IsWrite(q) /\ req[q].m_state = "WRITE_PRE"
    /\ req[q].delivered = 1 /\ req[q].delivered_r = -5
    /\ req[q].submitted = <<>>

\* C18: copyup_list_lock is not held when the send() of a newly created
\* copyup job is invoked, whether a write or a read created the job.
C18_LockReleasedBeforeJobSend ==
  \A j \in Reqs :
    jobs[j].sends >= 1 => ~jobs[j].send_locked

C20_OverlapFailureIsNoParent ==
  \A q \in Reqs :
    req[q].overlap_failed =>
      /\ IsRead(q) =>
           /\ req[q].delivered = 1 /\ req[q].delivered_r = req[q].last_r
           /\ ~req[q].m_tried_parent => req[q].delivered_r = -ENOENT
           /\ req[q].m_tried_parent => req[q].delivered_r > 0
           /\ jobs[q].state = "none"
      /\ IsWrite(q) =>
           /\ ~has_parent(req[q])
           /\ ~EnteredCopyup(q) /\ req[q].resumed = 0
           /\ req[q].m_state \in {"WRITE_FLAT", "WRITE_POST"}
           /\ req[q].pc \in {"wait", "done"}
           /\ req[q].pc = "wait" => Cardinality(req[q].pending) = 1
           /\ req[q].pc = "done" =>
                req[q].delivered_r =
                  IF req[q].m_hide_enoent /\ req[q].last_r = -ENOENT
                  THEN 0 ELSE req[q].last_r

\* a write whose guarded batch returned -ENOENT failed to retrieve the
\* overlap of a parent that still covers its object, and resubmitted
C20_Witness ==
  \E q \in Reqs :
    /\ IsWrite(q) /\ req[q].overlap_failed /\ req[q].guard_enoent
    /\ ictx.parent /\ ictx.parent_overlap = MaxOverlap
    /\ Len(req[q].submitted) = 2 /\ ~req[q].submitted[2].has_parent

\* a read in GUARD failed to retrieve the overlap and delivered -ENOENT
C20_ReadWitness ==
  \E q \in Reqs :
    /\ IsRead(q) /\ req[q].overlap_failed /\ ~req[q].m_tried_parent
    /\ ictx.parent /\ ictx.parent_overlap = MaxOverlap
    /\ req[q].delivered = 1 /\ req[q].delivered_r = -ENOENT

\* C21: a read has a parent read in flight only after m_tried_parent was set,
\* and m_tried_parent is never reset; once it is set the request submits
\* nothing more: the callback of the parent read, whatever its status,
\* starts no parent read and no object-store read, and either delivers that
\* status (always so in GUARD) or, in COPYUP, enters send_copyup, after
\* which the request only returns and delivers.
C21_OneParentRead ==
  /\ [](\A q \in Reqs :
         IsRead(q) =>
           /\ "parent" \in req[q].pending => req[q].m_tried_parent
           /\ (req[q].m_tried_parent /\ req[q].pc = "wait") =>
                req[q].pending = {"parent"}
           /\ (req[q].m_tried_parent /\ req[q].pc # "wait") =>
                req[q].pending = {})
  /\ [][\A q \in Reqs :
          IsRead(q) =>
            /\ req[q].m_tried_parent =>
                 /\ req'[q].m_tried_parent
                 /\ req'[q].pending \subseteq req[q].pending
            /\ ("parent" \in req[q].pending /\ req'[q] # req[q]) =>
                 /\ req'[q].pending = {}
                 /\ req[q].m_state = "READ_GUARD" =>
                      /\ req'[q].delivered = 1
                      /\ req'[q].delivered_r = req'[q].last_r
                 /\ req[q].m_state = "READ_COPYUP" =>
                      \/ /\ req'[q].delivered = 1
                         /\ req'[q].delivered_r = req'[q].last_r
                      \/ /\ req'[q].pc = "copyup_lock"
                         /\ req'[q].last_r > 0]_vars

\* the parent read of a read in GUARD returned -ENOENT, which was delivered
C21_Witness ==
  \E q \in Reqs :
    /\ IsRead(q) /\ req[q].m_tried_parent /\ req[q].m_state = "READ_GUARD"
    /\ ictx.parent /\ ictx.parent_overlap = MaxOverlap
    /\ req[q].delivered = 1 /\ req[q].delivered_r = -ENOENT

ReadStates == {"READ_FLAT", "READ_GUARD", "READ_COPYUP"}
WriteStates == {"WRITE_PRE", "WRITE_FLAT", "WRITE_GUARD", "WRITE_COPYUP",
                "WRITE_POST", "WRITE_ERROR"}

\* C22: the assertions on the automaton state hold wherever should_complete
\* can run: a write-family request is in ERROR only by the transition made
\* for a status r < 0, which the re-entrant complete(r) delivered at once,
\* and nothing is in flight that could re-enter it afterwards; a read in
\* COPYUP has m_tried_parent; and every request holds a state of its own
\* automaton.
C22_StateAssertionsHold ==
  \A q \in Reqs :
    /\ IsWrite(q) =>
         /\ req[q].m_state \in WriteStates
         /\ req[q].m_state = "WRITE_ERROR" =>
              /\ req[q].last_r < 0
              /\ req[q].delivered = 1 /\ req[q].pc = "done"
              /\ req[q].delivered_r =
                   IF req[q].m_hide_enoent /\ req[q].last_r = -ENOENT
                   THEN 0 ELSE req[q].last_r
              /\ req[q].pending = {}
    /\ IsRead(q) =>
         /\ req[q].m_state \in ReadStates
         /\ req[q].m_state = "READ_COPYUP" => req[q].m_tried_parent
    /\ ~req[q].uaf

\* a write resumed by a failed copyup job went to ERROR and delivered -5
C22_Witness ==
  \E q \in Reqs :
    /\ IsWrite(q) /\ req[q].m_state = "WRITE_ERROR" /\ req[q].resumed = 1
    /\ req[q].last_r = -5 /\ req[q].delivered_r = -5

====
